---- MODULE Spec2Model ----
(***************************************************************************)
(* A model of the personal budget application:                             *)
(*   - database.py: the SQLite record store (budgets, expenses);           *)
(*   - the relational app script (part_000, lines 1-186) whose pages call  *)
(*     the store;                                                          *)
(*   - the flat-file app script (part_000, lines 189-416) that keeps one   *)
(*     CSV file of (type, category, amount) rows per (email, month).       *)
(*                                                                         *)
(* Money amounts are integers (whole currency units).  The percentages     *)
(* 0.50 / 0.30 / 0.20 and the thresholds 0.9 / 1.0 are kept exact: a limit *)
(* is stored in hundredths (limit * 100) and every comparison of a ratio   *)
(* is a comparison of fractions.  Binary floating-point rounding is not    *)
(* part of the model.                                                      *)
(***************************************************************************)
EXTENDS Integers, Sequences, FiniteSets, Bags, TLC

VARIABLES
    variant,       \* which app script is deployed: "relational" or "flatfile"
    budgets,       \* table budgets: a bag of rows (the id column is never read)
    expenses,      \* table expenses: a set of rows, id is the primary key
    seq_expenses,  \* sqlite_sequence entry of table expenses (AUTOINCREMENT)
    files,         \* flat-file store: path -> NoFile or the sequence of CSV rows
    out,           \* what the most recent operation returned or displayed
    lastSaved,     \* history: budget key -> amount of the latest save_budget
    budget_in,     \* report engine input: the budget rows handed to a report
    actuals_in     \* report engine input: the expense rows handed to a report

vars == <<variant, budgets, expenses, seq_expenses, files, out, lastSaved,
          budget_in, actuals_in>>

(***************************************************************************)
(* Bounds of the model.                                                    *)
(***************************************************************************)
\* most expense ids the store hands out in one behaviour
MaxExpenseId == 2
\* most rows a CSV file grows to in one behaviour
MaxFileRows == 2
\* most expense rows handed to a report in the report-engine specification
MaxReportRows == 2

(***************************************************************************)
(* Helpers on sequences.                                                   *)
(***************************************************************************)
Range(s) == {s[i] : i \in DOMAIN s}

InList(x, l) == \E i \in DOMAIN l : l[i] = x

RECURSIVE SumAmounts(_)
SumAmounts(rows) ==
    IF rows = <<>> THEN 0
    ELSE rows[1].amount + SumAmounts(Tail(rows))

(***************************************************************************)
(* The category vocabulary and the 50/30/20 classification.                *)
(***************************************************************************)
options == <<"Housing", "Utilities", "Groceries", "Transportation",
             "Healthcare", "Insurance", "Debt Payments", "Entertainment",
             "Savings", "Education">>

needs == <<"Housing", "Utilities", "Groceries", "Transportation",
           "Healthcare", "Insurance", "Debt Payments">>

wants == <<"Entertainment">>

savings == <<"Savings", "Education">>

BucketNames == <<"Needs", "Wants", "Savings">>

\* the if / elif / elif / else chain of the report loop, with the final
\* else sending the row to Savings
classify_default_savings(category) ==
    IF InList(category, needs) THEN "Needs"
    ELSE IF InList(category, wants) THEN "Wants"
    ELSE IF InList(category, savings) THEN "Savings"
    ELSE "Savings"

\* the if / elif / elif / else chain of the report loop
classify(category) ==
    IF InList(category, needs) THEN "Needs"
    ELSE IF InList(category, wants) THEN "Wants"
    ELSE IF InList(category, savings) THEN "Savings"
    ELSE "Wants"

\* the report loop without its final else: a row of an unlisted category is
\* added to no bucket
RECURSIVE categorize_known_only(_, _)
categorize_known_only(rows, acc) ==
    IF rows = <<>> THEN acc
    ELSE IF InList(rows[1].category, needs \o wants \o savings)
    THEN categorize_known_only(Tail(rows),
             [acc EXCEPT ![classify(rows[1].category)] = @ + rows[1].amount])
    ELSE categorize_known_only(Tail(rows), acc)

\* for row in actuals: categorized[bucket] += row["amount"]
RECURSIVE categorize(_, _)
categorize(rows, acc) ==
    IF rows = <<>> THEN acc
    ELSE categorize(Tail(rows),
             [acc EXCEPT ![classify(rows[1].category)] = @ + rows[1].amount])

categorized0 == [b \in Range(BucketNames) |-> 0]

(***************************************************************************)
(* Limits and statuses.                                                    *)
(***************************************************************************)
\* percentage of the total budget given to each bucket (0.50, 0.30, 0.20)
percent == [Needs |-> 50, Wants |-> 30, Savings |-> 20]

\* limits[k] = total_budget * percent[k] / 100, kept in hundredths
limits100(total_budget) ==
    [b \in Range(BucketNames) |-> total_budget * percent[b]]

\* n1/d1 <= n2/d2 for d1 # 0, d2 > 0
FracLeq(n1, d1, n2, d2) ==
    IF d1 > 0 THEN n1 * d2 <= n2 * d1 ELSE n1 * d2 >= n2 * d1

\* the status with the first threshold exclusive (ratio < 0.9)
bucket_status_strict(actual, limit100) ==
    IF ~FracLeq(9, 10, 100 * actual, limit100) THEN "Under Budget"
    ELSE IF FracLeq(100 * actual, limit100, 1, 1) THEN "At Limit"
    ELSE "Over Budget"

\* ratio = actual / limit; <= 0.9 green, <= 1.0 yellow, else red
bucket_status(actual, limit100) ==
    IF FracLeq(100 * actual, limit100, 9, 10) THEN "Under Budget"
    ELSE IF FracLeq(100 * actual, limit100, 1, 1) THEN "At Limit"
    ELSE "Over Budget"

(***************************************************************************)
(* The 50/30/20 report of the relational app, from `total_budget = ...` to *)
(* the status list.  st.stop() ends the run with only the warning shown.   *)
(***************************************************************************)
\* the report without its zero-total check
total_is_zero_never(total_budget) == FALSE

\* if total_budget == 0: warning, st.stop()
total_is_zero(total_budget) == total_budget = 0

allocation_report(actuals, budget) ==
    LET total_budget == SumAmounts(budget)
        limits == limits100(total_budget)
        categorized == categorize(actuals, categorized0)
    IN  IF total_is_zero(total_budget)
        THEN [op |-> "report", kind |-> "warning"]
        ELSE IF \E b \in Range(BucketNames) : limits[b] = 0
        THEN [op |-> "report", kind |-> "ZeroDivisionError"]
        ELSE [op |-> "report", kind |-> "analysis",
              limits100 |-> limits,
              categorized |-> categorized,
              status |-> [i \in DOMAIN BucketNames |->
                            bucket_status(categorized[BucketNames[i]],
                                          limits[BucketNames[i]])]]

(***************************************************************************)
(* The 50/30/20 report of the flat-file app: the same limits and sums, but *)
(* only a chart; no ratio is computed.                                     *)
(***************************************************************************)
flat_allocation_report(actual_df, budget_df) ==
    LET total_income == SumAmounts(budget_df)
    IN  IF total_is_zero(total_income)
        THEN [op |-> "report", kind |-> "warning"]
        ELSE [op |-> "report", kind |-> "chart",
              limits100 |-> limits100(total_income),
              categorized |-> categorize(actual_df, categorized0)]

(***************************************************************************)
(* display_budget_vs_actual of the flat-file app.                          *)
(***************************************************************************)
\* the status with the first comparison inclusive (actual >= budget)
row_status_inclusive(actual_amt, budget_amt) ==
    IF actual_amt >= budget_amt THEN "Over Budget"
    ELSE IF 10 * actual_amt > 9 * budget_amt THEN "Near Limit"
    ELSE "OK"

\* status = OK; if actual > budget: Over; elif actual > 0.9 * budget: Near
row_status(actual_amt, budget_amt) ==
    IF actual_amt > budget_amt THEN "Over Budget"
    ELSE IF 10 * actual_amt > 9 * budget_amt THEN "Near Limit"
    ELSE "OK"

display_budget_vs_actual(budget_df, actual_df) ==
    [i \in DOMAIN budget_df |->
        LET cat == budget_df[i].category
            budget_amt == budget_df[i].amount
            SameCat(r) == r.category = cat
            actual_amt == SumAmounts(SelectSeq(actual_df, SameCat))
        IN  [Category |-> cat, Budgeted |-> budget_amt, Actual |-> actual_amt,
             Status |-> row_status(actual_amt, budget_amt)]]

NoOutput == [op |-> "none"]

(***************************************************************************)
(* database.py: the record store.  Every function opens its own connection *)
(* and runs one statement in one transaction, so each call is one step.    *)
(* Every function returns None.                                            *)
(***************************************************************************)
BudgetRow(user_id, month, category, amount) ==
    [user_id |-> user_id, month |-> month, category |-> category,
     amount |-> amount]

\* the rows of bag B that conflict with the key on UNIQUE(user_id, month,
\* category)
Conflicts(B, user_id, month, category) ==
    {r \in BagToSet(B) :
        r.user_id = user_id /\ r.month = month /\ r.category = category}

\* INSERT ... ON CONFLICT DO UPDATE SET amount = amount + excluded.amount
upsert_budget_accumulates(B, user_id, month, category, amount) ==
    LET hit == Conflicts(B, user_id, month, category) IN
    IF hit = {}
    THEN B (+) SetToBag({BudgetRow(user_id, month, category, amount)})
    ELSE LET old == CHOOSE r \in hit : TRUE IN
         (B (-) SetToBag({old}))
           (+) SetToBag({[old EXCEPT !.amount = @ + amount]})

\* INSERT ... ON CONFLICT(user_id, month, category)
\* DO UPDATE SET amount = excluded.amount
upsert_budget(B, user_id, month, category, amount) ==
    LET hit == Conflicts(B, user_id, month, category) IN
    IF hit = {}
    THEN B (+) SetToBag({BudgetRow(user_id, month, category, amount)})
    ELSE LET old == CHOOSE r \in hit : TRUE IN
         (B (-) SetToBag({old}))
           (+) SetToBag({[old EXCEPT !.amount = amount]})

\* history kept beside the store: the amount of the latest save of a key and
\* whether the key was saved once or more often
NotSaved == [amount |-> 0, saves |-> 0]

record_save(h, key, amount) ==
    [h EXCEPT ![key] = [amount |-> amount,
                        saves |-> IF @.saves = 0 THEN 1 ELSE 2]]

\* some enumeration of a finite set as a sequence (row order of a SELECT
\* without ORDER BY)
RECURSIVE SetToSeq(_)
SetToSeq(S) ==
    IF S = {} THEN <<>>
    ELSE LET x == CHOOSE y \in S : TRUE IN <<x>> \o SetToSeq(S \ {x})

RECURSIVE Copies(_, _)
Copies(x, n) == IF n <= 0 THEN <<>> ELSE <<x>> \o Copies(x, n - 1)

RECURSIVE BagRowsToSeq(_, _)
BagRowsToSeq(B, S) ==
    IF S = {} THEN <<>>
    ELSE LET x == CHOOSE y \in S : TRUE
         IN  Copies([category |-> x.category, amount |-> x.amount],
                    CopiesIn(x, B))
               \o BagRowsToSeq(B, S \ {x})

\* SELECT category, amount FROM budgets WHERE user_id = ? AND month = ?
get_budget(user_id, month) ==
    BagRowsToSeq(budgets,
        {r \in BagToSet(budgets) : r.user_id = user_id /\ r.month = month})

\* SELECT id, category, amount, timestamp FROM expenses
\* WHERE user_id = ? AND month = ? ORDER BY timestamp DESC
get_expenses(user_id, month) ==
    LET S == {[id |-> r.id, category |-> r.category, amount |-> r.amount,
               timestamp |-> r.timestamp] :
                 r \in {x \in expenses :
                          x.user_id = user_id /\ x.month = month}}
        n == Cardinality(S)
    IN  CHOOSE s \in [1..n -> S] :
            /\ \A i, j \in 1..n : i # j => s[i] # s[j]
            /\ \A i, j \in 1..n : i < j => s[i].timestamp >= s[j].timestamp

\* INSERT INTO expenses (...) VALUES (...): the id is the next AUTOINCREMENT
\* value, the timestamp is the clock reading
insert_expense(E, id, user_id, month, category, amount, timestamp) ==
    E \cup {[id |-> id, user_id |-> user_id, month |-> month,
             category |-> category, amount |-> amount,
             timestamp |-> timestamp]}

\* UPDATE expenses SET amount = ? (no WHERE clause)
update_rows_all(E, expense_id, new_amount) ==
    {[r EXCEPT !.amount = new_amount] : r \in E}

\* UPDATE expenses SET amount = ? WHERE id = ?
update_rows(E, expense_id, new_amount) ==
    {IF r.id = expense_id THEN [r EXCEPT !.amount = new_amount] ELSE r :
        r \in E}

\* DELETE FROM expenses WHERE id = ?
delete_rows(E, expense_id) == {r \in E : r.id # expense_id}

save_budget(user_id, month, category, amount) ==
    /\ budgets' = upsert_budget(budgets, user_id, month, category, amount)
    /\ lastSaved' = record_save(lastSaved, <<user_id, month, category>>, amount)
    /\ out' = [op |-> "save_budget", ret |-> "None"]
    /\ UNCHANGED <<variant, expenses, seq_expenses, files, budget_in,
                   actuals_in>>

add_expense(user_id, month, category, amount, timestamp) ==
    /\ seq_expenses < MaxExpenseId
    /\ expenses' = insert_expense(expenses, seq_expenses + 1, user_id, month,
                                  category, amount, timestamp)
    /\ seq_expenses' = seq_expenses + 1
    /\ out' = [op |-> "add_expense", ret |-> "None"]
    /\ UNCHANGED <<variant, budgets, files, lastSaved, budget_in, actuals_in>>

\* `existed` is history: whether a row with the id was there when the call
\* was made.  The function itself returns None either way.
update_expense(expense_id, new_amount) ==
    /\ expenses' = update_rows(expenses, expense_id, new_amount)
    /\ out' = [op |-> "update_expense", ret |-> "None",
               expense_id |-> expense_id, new_amount |-> new_amount,
               existed |-> \E r \in expenses : r.id = expense_id]
    /\ UNCHANGED <<variant, budgets, seq_expenses, files, lastSaved,
                   budget_in, actuals_in>>

delete_expense(expense_id) ==
    /\ expenses' = delete_rows(expenses, expense_id)
    /\ out' = [op |-> "delete_expense", ret |-> "None",
               expense_id |-> expense_id,
               existed |-> \E r \in expenses : r.id = expense_id]
    /\ UNCHANGED <<variant, budgets, seq_expenses, files, lastSaved,
                   budget_in, actuals_in>>

(***************************************************************************)
(* Inputs: users, months, clock readings.                                  *)
(***************************************************************************)
Users == {1, 2}

\* datetime.today() and strftime("%Y-%m")
Today == [year |-> 2026, month |-> 11]

strftime_Y_m(d) ==
    ToString(d.year) \o "-" \o (IF d.month < 10 THEN "0" ELSE "")
      \o ToString(d.month)

current_month == strftime_Y_m(Today)

NextMonth == strftime_Y_m([year |-> 2026, month |-> 12])

\* readings of datetime.now() (the isoformat string orders as the instant)
Clock == {1, 2}

\* the categories the model's users work with
AppCategories == {"Housing", "Entertainment"}

StoreBudgetKeys ==
    { <<1, current_month, "Housing">>, <<2, current_month, "Housing">>,
      <<1, NextMonth, "Housing">>, <<1, current_month, "Savings">> }

AllBudgetKeys ==
    StoreBudgetKeys \cup (Users \X {current_month} \X AppCategories)

InitStore ==
    /\ variant = "relational"
    /\ budgets = EmptyBag
    /\ expenses = {}
    /\ seq_expenses = 0
    /\ lastSaved = [k \in AllBudgetKeys |-> NotSaved]
    /\ files = <<>>
    /\ out = NoOutput
    /\ budget_in = <<>>
    /\ actuals_in = <<>>

(***************************************************************************)
(* The budget table under arbitrary save_budget calls.                     *)
(***************************************************************************)
SaveBudgetCall ==
    \E k \in StoreBudgetKeys, amount \in {10, 20} :
        save_budget(k[1], k[2], k[3], amount)

GetBudgetCall ==
    \E user_id \in Users, month \in {current_month, NextMonth} :
        /\ out' = [op |-> "get_budget", ret |-> get_budget(user_id, month)]
        /\ UNCHANGED <<variant, budgets, expenses, seq_expenses, files,
                       lastSaved, budget_in, actuals_in>>

NextBudgetStore == SaveBudgetCall \/ GetBudgetCall

SpecBudgetStore == InitStore /\ [][NextBudgetStore]_vars

\* number of rows of the budget table with the key
RECURSIVE BagCount(_, _)
BagCount(B, S) ==
    IF S = {} THEN 0
    ELSE LET x == CHOOSE y \in S : TRUE
         IN  CopiesIn(x, B) + BagCount(B, S \ {x})

\* C1: after any sequence of save_budget calls there is at most one budget
\* row per (user_id, month, category), and its amount is the amount of the
\* latest save_budget of that key (replaced, not accumulated).
BudgetUpsert ==
    \A k \in AllBudgetKeys :
        LET hit == Conflicts(budgets, k[1], k[2], k[3]) IN
        /\ BagCount(budgets, hit) <= 1
        /\ lastSaved[k].saves = 0 => hit = {}
        /\ lastSaved[k].saves > 0 =>
             /\ BagCount(budgets, hit) = 1
             /\ \A r \in hit : r.amount = lastSaved[k].amount

\* a key saved more than once holds the latest amount, beside another key
BudgetUpsertWitness ==
    LET k1 == <<1, current_month, "Housing">>
        k2 == <<1, NextMonth, "Housing">>
    IN  /\ lastSaved[k1].saves = 2
        /\ lastSaved[k2].saves = 2
        /\ budgets = SetToBag({BudgetRow(1, current_month, "Housing", 10),
                               BudgetRow(1, NextMonth, "Housing", 20)})

(***************************************************************************)
(* The expense table under arbitrary add / update / delete calls.          *)
(***************************************************************************)
StoreScopes == {<<1, current_month>>, <<2, current_month>>, <<1, NextMonth>>}

AddExpenseCall ==
    \E sc \in StoreScopes, category \in {"Housing", "Dining"},
       timestamp \in Clock :
        add_expense(sc[1], sc[2], category, 10, timestamp)

UpdateExpenseCall ==
    \E expense_id \in 1..(MaxExpenseId + 1), new_amount \in {-1, 20} :
        update_expense(expense_id, new_amount)

DeleteExpenseCall ==
    \E expense_id \in 1..(MaxExpenseId + 1) : delete_expense(expense_id)

OneBudgetCall == save_budget(1, current_month, "Housing", 10)

NextExpenseStore ==
    \/ AddExpenseCall
    \/ UpdateExpenseCall
    \/ DeleteExpenseCall
    \/ OneBudgetCall

SpecExpenseStore == InitStore /\ [][NextExpenseStore]_vars

MutatedById == out.op \in {"update_expense", "delete_expense"}

\* C7: update_expense and delete_expense called with an id that is not in
\* the store tell the caller so: the outcome differs from the outcome for an
\* existing id (which is a plain return of None).
NotFoundSurfaced ==
    (MutatedById /\ ~out.existed) => out.ret # "None"

\* C9: update_expense changes only the amount of the row with the id and
\* delete_expense removes only that row; every other expense row, the other
\* columns of the updated row and all budget rows stay as they were.
SingleEntryFrame ==
    [][ /\ out'.op = "update_expense" =>
            /\ budgets' = budgets
            /\ \A r \in expenses :
                 IF r.id = out'.expense_id
                 THEN [r EXCEPT !.amount = out'.new_amount] \in expenses'
                 ELSE r \in expenses'
            /\ Cardinality(expenses') = Cardinality(expenses)
        /\ out'.op = "delete_expense" =>
            /\ budgets' = budgets
            /\ expenses' = {r \in expenses : r.id # out'.expense_id}
            /\ Cardinality(expenses')
                 >= Cardinality(expenses) - 1 ]_vars

\* an update of one of two rows, with a budget row in the store
SingleEntryFrameWitness ==
    /\ out.op = "update_expense" /\ out.existed
    /\ out.expense_id = 1
    /\ budgets # EmptyBag
    /\ \E r, q \in expenses :
         /\ r.id = 1 /\ r.amount = 20 /\ out.new_amount = 20
         /\ q.id = 2 /\ q.amount = 10 /\ q.user_id # r.user_id

(***************************************************************************)
(* The report engine on its own: the three report computations applied to  *)
(* budget rows and expense rows drawn from bounded sets.                   *)
(***************************************************************************)
BSeq(S, n) == UNION {[1..k -> S] : k \in 0..n}

\* category names a row may carry: the vocabulary, an unlisted name, a name
\* that differs from a listed one only in case, and the empty string
ReportCategories == Range(options) \cup {"Dining", "housing", ""}

ReportRowInputs ==
    [category : ReportCategories, amount : {10}]
    \cup [category : {"Housing", "Savings", "Dining"}, amount : {9, 11}]

BudgetInputs ==
    { <<>>,
      <<[category |-> "Housing", amount |-> 0]>>,
      <<[category |-> "Housing", amount |-> 10]>>,
      <<[category |-> "Housing", amount |-> 20]>>,
      <<[category |-> "Housing", amount |-> 10],
        [category |-> "Entertainment", amount |-> 20]>>,
      <<[category |-> "Housing", amount |-> 20],
        [category |-> "Savings", amount |-> 20],
        [category |-> "Entertainment", amount |-> 10]>> }

EmptyStore ==
    /\ budgets = EmptyBag
    /\ expenses = {}
    /\ seq_expenses = 0
    /\ lastSaved = [k \in AllBudgetKeys |-> NotSaved]

InitReport ==
    /\ variant \in {"relational", "flatfile"}
    /\ EmptyStore
    /\ files = <<>>
    /\ out = NoOutput
    /\ budget_in \in BudgetInputs
    /\ actuals_in \in BSeq(ReportRowInputs, MaxReportRows)

RunAllocationReport ==
    /\ variant = "relational"
    /\ out' = allocation_report(actuals_in, budget_in)
    /\ UNCHANGED <<variant, budgets, expenses, seq_expenses, files, lastSaved,
                   budget_in, actuals_in>>

RunFlatAllocationReport ==
    /\ variant = "flatfile"
    /\ out' = flat_allocation_report(actuals_in, budget_in)
    /\ UNCHANGED <<variant, budgets, expenses, seq_expenses, files, lastSaved,
                   budget_in, actuals_in>>

RunBudgetVsActual ==
    /\ variant = "flatfile"
    /\ out' = [op |-> "budget_vs_actual",
               rows |-> display_budget_vs_actual(budget_in, actuals_in)]
    /\ UNCHANGED <<variant, budgets, expenses, seq_expenses, files, lastSaved,
                   budget_in, actuals_in>>

NextReport ==
    \/ RunAllocationReport
    \/ RunFlatAllocationReport
    \/ RunBudgetVsActual

SpecReport == InitReport /\ [][NextReport]_vars

(***************************************************************************)
(* Properties of the report engine.                                        *)
(***************************************************************************)
\* the sum of the amounts of the rows whose index is in I
RECURSIVE AmountOver(_, _)
AmountOver(rows, I) ==
    IF I = {} THEN 0
    ELSE LET i == CHOOSE j \in I : TRUE
         IN  rows[i].amount + AmountOver(rows, I \ {i})

HasSums == out.op = "report" /\ out.kind \in {"analysis", "chart"}

\* C2: the per-bucket sums of an allocation report add up to the sum of all
\* expense amounts handed to it: no row is dropped or counted twice.
BucketSumsAddUp ==
    HasSums =>
        out.categorized["Needs"] + out.categorized["Wants"]
          + out.categorized["Savings"]
        = AmountOver(actuals_in, DOMAIN actuals_in)

BucketSumsAddUpWitness ==
    /\ HasSums
    /\ Len(actuals_in) = 2
    /\ actuals_in[1].category = "Dining"
    /\ actuals_in[2].category = "Housing"
    /\ out.categorized["Needs"] = 9
    /\ out.categorized["Wants"] = 11

\* the classification table as the specification states it
TableBucket(category) ==
    IF category \in {"Housing", "Utilities", "Groceries", "Transportation",
                     "Healthcare", "Insurance", "Debt Payments"} THEN "Needs"
    ELSE IF category \in {"Savings", "Education"} THEN "Savings"
    ELSE "Wants"

\* C6: classification is total: a report is never refused because of a
\* category name, and every row is counted in the bucket the table gives
\* (exact, case-sensitive match; any unlisted name counts as Wants).
ClassificationIsTotal ==
    /\ out.op = "report" => out.kind \in {"warning", "analysis", "chart"}
    /\ HasSums =>
         \A b \in {"Needs", "Wants", "Savings"} :
            out.categorized[b] =
              AmountOver(actuals_in,
                  {i \in DOMAIN actuals_in :
                      TableBucket(actuals_in[i].category) = b})

ClassificationIsTotalWitness ==
    /\ HasSums
    /\ Len(actuals_in) = 2
    /\ actuals_in[1].category = "housing"
    /\ actuals_in[2].category = "Education"
    /\ out.categorized = [Needs |-> 0, Wants |-> 10, Savings |-> 10]

BudgetTotal == AmountOver(budget_in, DOMAIN budget_in)

TypedAmounts == {-5, 0, 10}

\* st.number_input without its min_value check
number_input_unchecked(min_value) == TypedAmounts

\* st.number_input(..., min_value=m): the widget hands back only values >= m
number_input(min_value) == {v \in TypedAmounts : v >= min_value}

\* st.number_input("Amount", value=row["amount"], key=...): no min_value
number_input_free == TypedAmounts

\* st.multiselect: the chosen categories, in the order they were chosen
Selections ==
    {s \in BSeq(AppCategories, Cardinality(AppCategories)) :
        \A i, j \in DOMAIN s : i # j => s[i] # s[j]}

\* a page result with the session it was shown to
WithUser(rec, user) ==
    [f \in DOMAIN rec \cup {"user"} |-> IF f = "user" THEN user ELSE rec[f]]

(***************************************************************************)
(* The relational app script: one step per script run of a logged-in       *)
(* session.  user_id is the id of the session's account.                   *)
(***************************************************************************)
\* for cat in categories: amt = number_input(min_value=0.0);
\*                        if amt > 0: db.save_budget(...)
RECURSIVE save_budgets(_, _, _, _)
save_budgets(B, user_id, cats, amts) ==
    IF cats = <<>> THEN B
    ELSE save_budgets(
             IF amts[cats[1]] > 0
             THEN upsert_budget(B, user_id, current_month, cats[1],
                                amts[cats[1]])
             ELSE B,
             user_id, Tail(cats), amts)

SetBudgetPage(user_id) ==
    \E cats \in Selections :
      \E amts \in [Range(cats) -> number_input(0)] :
        /\ variant = "relational"
        /\ budgets' = save_budgets(budgets, user_id, cats, amts)
        /\ out' = [op |-> "set_budget", kind |-> "saved"]
        /\ UNCHANGED <<variant, expenses, seq_expenses, files, lastSaved,
                       budget_in, actuals_in>>

\* the selectbox offering every category of the vocabulary in use
all_categories(budget_data) == AppCategories

\* st.selectbox("Category", [b["category"] for b in budget_data])
budget_categories(budget_data) == {b.category : b \in Range(budget_data)}

AddExpensePage(user_id) ==
    LET budget_data == get_budget(user_id, current_month) IN
    /\ variant = "relational"
    /\ IF budget_data = <<>>
       THEN /\ out' = [op |-> "add_expense", kind |-> "warning"]
            /\ UNCHANGED <<expenses, seq_expenses>>
       ELSE \E cat \in budget_categories(budget_data),
               amt \in number_input(0), clicked \in BOOLEAN,
               timestamp \in Clock :
              IF clicked
              THEN /\ seq_expenses < MaxExpenseId
                   /\ expenses' = insert_expense(expenses, seq_expenses + 1,
                                      user_id, current_month, cat, amt,
                                      timestamp)
                   /\ seq_expenses' = seq_expenses + 1
                   /\ out' = [op |-> "add_expense", kind |-> "added"]
              ELSE /\ out' = [op |-> "add_expense", kind |-> "form"]
                   /\ UNCHANGED <<expenses, seq_expenses>>
    /\ UNCHANGED <<variant, budgets, files, lastSaved, budget_in, actuals_in>>

\* The script binds the store module as `db` (import database as db); the
\* View/Edit page refers to it as `database`, a name the script never binds.
database_is_bound == FALSE

\* rows = database.get_expenses(...) raises NameError and ends the run.  The
\* rest of the page is what would run if the name were bound.
ViewEditPage(user_id) ==
    LET rows == get_expenses(user_id, current_month) IN
    /\ variant = "relational"
    /\ IF ~database_is_bound
       THEN /\ out' = [op |-> "view_edit", kind |-> "NameError"]
            /\ UNCHANGED expenses
       ELSE IF rows = <<>>
       THEN /\ out' = [op |-> "view_edit", kind |-> "info"]
            /\ UNCHANGED expenses
       ELSE \E i \in DOMAIN rows, new_amt \in number_input_free,
               button \in {"none", "save", "delete"} :
              /\ expenses' =
                   CASE button = "save" ->
                          update_rows(expenses, rows[i].id, new_amt)
                     [] button = "delete" ->
                          delete_rows(expenses, rows[i].id)
                     [] OTHER -> expenses
              /\ out' = [op |-> "view_edit",
                         kind |-> CASE button = "save" -> "updated"
                                    [] button = "delete" -> "deleted"
                                    [] OTHER -> "form"]
    /\ UNCHANGED <<variant, budgets, seq_expenses, files, lastSaved,
                   budget_in, actuals_in>>

ReportPage(user_id) ==
    /\ variant = "relational"
    /\ out' = WithUser(allocation_report(get_expenses(user_id, current_month),
                                         get_budget(user_id, current_month)),
                       user_id)
    /\ UNCHANGED <<variant, budgets, expenses, seq_expenses, files, lastSaved,
                   budget_in, actuals_in>>

(***************************************************************************)
(* The flat-file app script: one CSV file per (email, month), loaded at    *)
(* the start of every script run and rewritten whole by save_data.         *)
(***************************************************************************)
\* e-mail addresses, as sequences of characters
FlatEmails == { <<"a", "@", "b", ".", "c">>, <<"d", "@", "b", ".", "c">> }

\* str.replace of one character by a string, then the characters joined
RECURSIVE replace(_, _, _)
replace(chars, old, new) ==
    IF chars = <<>> THEN <<>>
    ELSE <<IF chars[1] = old THEN new ELSE chars[1]>>
           \o replace(Tail(chars), old, new)

RECURSIVE Join(_)
Join(chars) == IF chars = <<>> THEN "" ELSE chars[1] \o Join(Tail(chars))

get_data_path(email, month_year) ==
    LET safe_email == Join(replace(replace(email, "@", "_at_"), ".", "_dot_"))
    IN  "data/" \o safe_email \o "/" \o month_year \o ".csv"

FlatPaths == {get_data_path(e, current_month) : e \in FlatEmails}

Missing == [exists |-> FALSE, rows |-> <<>>]

\* pd.read_csv(path) if the file exists, else an empty frame
load_data(email, month_year) == files[get_data_path(email, month_year)].rows

\* df.to_csv(path, index=False)
save_data(email, month_year, df) ==
    [files EXCEPT ![get_data_path(email, month_year)] =
        [exists |-> TRUE, rows |-> df]]

IsBudget(r) == r.type = "budget"

IsActual(r) == r.type = "actual"

\* df.loc[(category == cat) & (type == "budget"), "amount"] = amount
set_budget_amount(df, cat, amount) ==
    [i \in DOMAIN df |->
        IF df[i].category = cat /\ df[i].type = "budget"
        THEN [df[i] EXCEPT !.amount = amount] ELSE df[i]]

\* the loop of the Set Monthly Budget page; budget_df is the frame taken
\* from the file when the run started
RECURSIVE set_budgets(_, _, _, _)
set_budgets(df, budget_df, cats, amts) ==
    IF cats = <<>> THEN df
    ELSE set_budgets(
             IF \E i \in DOMAIN budget_df : budget_df[i].category = cats[1]
             THEN set_budget_amount(df, cats[1], amts[cats[1]])
             ELSE Append(df, [type |-> "budget", category |-> cats[1],
                              amount |-> amts[cats[1]]]),
             budget_df, Tail(cats), amts)

SetMonthlyBudgetPage(email) ==
    LET df == load_data(email, current_month)
        budget_df == SelectSeq(df, IsBudget)
    IN  \E cats \in Selections :
          \E amts \in [Range(cats) -> number_input(0)] :
            LET df2 == set_budgets(df, budget_df, cats, amts) IN
            /\ variant = "flatfile"
            /\ Len(df2) <= MaxFileRows
            /\ files' = save_data(email, current_month, df2)
            /\ out' = [op |-> "set_budget", kind |-> "saved"]
            /\ UNCHANGED <<variant, budgets, expenses, seq_expenses,
                           lastSaved, budget_in, actuals_in>>

\* st.selectbox("Select a category", budget_df["category"].unique())
unique_categories(budget_df) == {b.category : b \in Range(budget_df)}

\* the comparison shown under the form is computed from the frames taken
\* from the file when the run started
TrackSpendingPage(email) ==
    LET df == load_data(email, current_month)
        budget_df == SelectSeq(df, IsBudget)
        actual_df == SelectSeq(df, IsActual)
    IN  /\ variant = "flatfile"
        /\ IF budget_df = <<>>
           THEN /\ out' = [op |-> "track_spending", kind |-> "warning"]
                /\ UNCHANGED files
           ELSE \E cat \in unique_categories(budget_df),
                   amt \in number_input(0), clicked \in BOOLEAN :
                  /\ IF clicked
                     THEN /\ Len(df) < MaxFileRows
                          /\ files' = save_data(email, current_month,
                                 Append(df, [type |-> "actual",
                                             category |-> cat,
                                             amount |-> amt]))
                     ELSE UNCHANGED files
                  /\ out' = [op |-> "track_spending", kind |-> "comparison",
                             added |-> clicked,
                             rows |-> display_budget_vs_actual(budget_df,
                                                               actual_df)]
        /\ UNCHANGED <<variant, budgets, expenses, seq_expenses, lastSaved,
                       budget_in, actuals_in>>

FlatReportPage(email) ==
    LET df == load_data(email, current_month)
        budget_df == SelectSeq(df, IsBudget)
        actual_df == SelectSeq(df, IsActual)
    IN  /\ variant = "flatfile"
        /\ out' = WithUser(flat_allocation_report(actual_df, budget_df), email)
        /\ UNCHANGED <<variant, budgets, expenses, seq_expenses, files,
                       lastSaved, budget_in, actuals_in>>

\* the months with a file in the user's folder
get_all_months(email) ==
    {m \in {current_month} : files[get_data_path(email, m)].exists}

ReviewPastMonthsPage(email) ==
    LET months == get_all_months(email) IN
    /\ variant = "flatfile"
    /\ IF months = {}
       THEN out' = [op |-> "review", kind |-> "info"]
       ELSE \E selected_month \in months :
              LET review_df == load_data(email, selected_month) IN
              IF review_df = <<>>
              THEN out' = [op |-> "review", kind |-> "info"]
              ELSE out' = [op |-> "review", kind |-> "comparison",
                           rows |-> display_budget_vs_actual(
                                        SelectSeq(review_df, IsBudget),
                                        SelectSeq(review_df, IsActual))]
    /\ UNCHANGED <<variant, budgets, expenses, seq_expenses, files, lastSaved,
                   budget_in, actuals_in>>

(***************************************************************************)
(* The application: either script, used by any number of sessions.         *)
(***************************************************************************)
Init ==
    /\ variant \in {"relational", "flatfile"}
    /\ EmptyStore
    /\ files = [p \in FlatPaths |-> Missing]
    /\ out = NoOutput
    /\ budget_in = <<>>
    /\ actuals_in = <<>>

Next ==
    \/ \E user_id \in Users : SetBudgetPage(user_id)
    \/ \E user_id \in Users : AddExpensePage(user_id)
    \/ \E user_id \in Users : ViewEditPage(user_id)
    \/ \E user_id \in Users : ReportPage(user_id)
    \/ \E email \in FlatEmails : SetMonthlyBudgetPage(email)
    \/ \E email \in FlatEmails : TrackSpendingPage(email)
    \/ \E email \in FlatEmails : FlatReportPage(email)
    \/ \E email \in FlatEmails : ReviewPastMonthsPage(email)

Spec == Init /\ [][Next]_vars

(***************************************************************************)
(* Properties of the application.                                          *)
(***************************************************************************)
\* the budget amounts of the scope the last page run belonged to
ScopeBudgetAmounts ==
    IF variant = "relational"
    THEN {<<r, n>> : r \in {x \in BagToSet(budgets) :
                              x.user_id = out.user /\ x.month = current_month},
                     n \in 1..1}
    ELSE LET df == files[get_data_path(out.user, current_month)].rows
         IN  {<<df[i], i>> : i \in {j \in DOMAIN df : df[j].type = "budget"}}

RECURSIVE PairAmounts(_)
PairAmounts(S) ==
    IF S = {} THEN 0
    ELSE LET x == CHOOSE y \in S : TRUE
         IN  x[1].amount + PairAmounts(S \ {x})

\* C3: an allocation report requested for a scope whose total budget is 0
\* (no budget entries, or entries that sum to 0) shows the set-a-budget
\* warning; the ratio actual / limit is computed only with every limit > 0.
ZeroBudgetNotComputable ==
    out.op = "report" =>
        /\ out.kind \in {"warning", "analysis", "chart"}
        /\ PairAmounts(ScopeBudgetAmounts) = 0 => out.kind = "warning"
        /\ out.kind = "analysis" =>
             \A b \in {"Needs", "Wants", "Savings"} : out.limits100[b] > 0

\* the report of a user without budget, while another user has one
ZeroBudgetNotComputableWitness ==
    /\ variant = "relational"
    /\ out.op = "report" /\ out.kind = "warning" /\ out.user = 1
    /\ budgets # EmptyBag
    /\ expenses # {}

\* the flat-file counterpart of the budget key: a file holds at most one
\* budget row per category
FlatBudgetRowsUnique ==
    \A p \in DOMAIN files :
        LET df == files[p].rows IN
        \A i, j \in DOMAIN df :
            (df[i].type = "budget" /\ df[j].type = "budget"
               /\ df[i].category = df[j].category) => i = j

ExpenseCategoryBudgeted ==
    /\ \A e \in expenses :
         \E b \in BagToSet(budgets) :
            /\ b.user_id = e.user_id /\ b.month = e.month
            /\ b.category = e.category
    /\ \A p \in DOMAIN files :
         LET df == files[p].rows IN
         \A i \in DOMAIN df :
            df[i].type = "actual" =>
               \E j \in DOMAIN df :
                  df[j].type = "budget" /\ df[j].category = df[i].category

\* user 1 has an expense for the one category user 1 budgeted, while user 2
\* budgeted only the other category
ExpenseCategoryBudgetedWitness ==
    /\ variant = "relational"
    /\ \E e \in expenses : e.user_id = 1 /\ e.category = "Housing"
    /\ \A b \in BagToSet(budgets) :
         (b.user_id = 1) <=> (b.category = "Housing")
    /\ \E b \in BagToSet(budgets) : b.user_id = 2

====
